---- MODULE Spec2Model ----
(***************************************************************************)
(* Model of the custom HTTP probe of docker-slim                           *)
(* (internal/app/master/inspectors/container/probes/http/custom_probe.go). *)
(*                                                                         *)
(* NewCustomProbe resolves the ordered list of host ports to probe from    *)
(* the container inspector's port map, the image's EXPOSE list and the     *)
(* optional target-port list.  Start spawns one goroutine that sleeps for  *)
(* the warm-up delay, walks ports x commands x protocols with a retry loop *)
(* per combination, prints the summary and closes doneChan.                *)
(***************************************************************************)
EXTENDS Integers, Sequences, FiniteSets, TLC

(***************************************************************************)
(* Bounds of the model.                                                    *)
(***************************************************************************)
MaxTargetPorts == 2      \* longest targetPorts argument
MaxExposedPorts == 2     \* longest EXPOSE list of the image
MaxCmds == 2             \* longest command list
MaxRetryCount == 2       \* largest configured retry count
MaxRetryWait == 2        \* largest configured retry wait (seconds)

(***************************************************************************)
(* Program constants.                                                      *)
(***************************************************************************)
probeRetryCount == 5
warmUpWait == 9
defaultNotReadyErrorWait == 16
defaultWebErrorWait == 8
defaultOtherErrorWait == 4

(***************************************************************************)
(* Generic helpers.                                                        *)
(***************************************************************************)
BoundedSeq(S, n) == UNION {[1..k -> S] : k \in 0..n}

Range(s) == {s[k] : k \in 1..Len(s)}

\* All orders in which a Go `range` over a map with key set S can visit it.
Perms(S) == {s \in [1..Cardinality(S) -> S] : Range(s) = S}

Reverse(s) == [k \in 1..Len(s) |-> s[Len(s) + 1 - k]]

NoDuplicates(s) == \A a, b \in 1..Len(s) : s[a] = s[b] => a = b

(***************************************************************************)
(* The inspector: the container's port map (container port key -> list of  *)
(* bindings, each binding a host port), the two control ports of the       *)
(* sensor, the image's EXPOSE list and the docker host address.            *)
(***************************************************************************)
CmdPortKey == "65501/tcp"
EvtPortKey == "65502/tcp"
AppPortKeys == {"8080/tcp", "9090/tcp"}
HostPortPool == {"8080", "9090", "7070", "7071"}
ExposedPool == {"8080", "9090", "7070"}
TargetPool == {8080, 9090}

\* Docker binds a host port to one container port: the map is injective.
PortMaps ==
    UNION {{m \in [({CmdPortKey, EvtPortKey} \cup apps) -> HostPortPool] :
                \A a, b \in DOMAIN m : m[a] = m[b] => a = b} :
           apps \in SUBSET AppPortKeys}

Bindings(m) == [k \in DOMAIN m |-> <<[HostPort |-> m[k]]>>]

Inspectors ==
    {[Ports |-> Bindings(m), CmdPort |-> CmdPortKey, EvtPort |-> EvtPortKey,
      ExposedPorts |-> e, DockerHostIP |-> "10.0.0.1"] :
        m \in PortMaps, e \in BoundedSeq(ExposedPool, MaxExposedPorts)}

(***************************************************************************)
(* Probe commands (config.HTTPProbeCmd).  A header line is a sequence of   *)
(* characters.                                                             *)
(***************************************************************************)
HdrNoColon == <<"X", "-", "T">>
HdrAccept == <<"A", " ", ":", " ", "b", ":", "c", " ">>

CmdBoth ==
    [Method |-> "GET", Resource |-> "/", Protocol |-> "",
     Headers |-> <<HdrNoColon, HdrAccept>>, Username |-> "", Password |-> ""]
CmdHttps ==
    [Method |-> "POST", Resource |-> "/api", Protocol |-> "https",
     Headers |-> <<>>, Username |-> "u", Password |-> ""]
CmdBadMethod ==
    [Method |-> "BAD METHOD", Resource |-> "/", Protocol |-> "http",
     Headers |-> <<>>, Username |-> "", Password |-> ""]
CmdPool == {CmdBoth, CmdHttps, CmdBadMethod}

(***************************************************************************)
(* State.                                                                  *)
(***************************************************************************)
VARIABLES
    inspector,   \* the container inspector handed to NewCustomProbe
    args,        \* the other arguments of the NewCustomProbe call
    probe,       \* the CustomProbe: PrintState, Ports, Cmds, RetryCount, RetryWait, TargetPorts
    doneChan,    \* p.doneChan: "nil" before construction, then "open", then "closed"
    cpc,         \* the caller: "new", "constructed", "started", "released"
    gpc,         \* the goroutine of Start
    portIdx,     \* index into p.Ports of the range loop of line 126
    cmdIdx,      \* index into p.Cmds of the range loop of line 127
    protoIdx,    \* index into protocols of the range loop of line 135
    i,           \* the retry loop's counter of line 152
    callCount,   \* line 122
    errCount,    \* line 123
    okCount,     \* line 124
    req,         \* the request handed to httpClient.Do
    res,         \* the response of httpClient.Do (its StatusCode), 0 when nil
    err,         \* the error of httpClient.Do
    sleepFor,    \* seconds of the time.Sleep the goroutine is in, 0 when awake
    stdout,      \* the state, summary and warning printed so far
    tried,       \* history: the protocols tried for the current command on the current
                 \* port, each with its calls, successes and failures
    closes,      \* history: how many times close(p.doneChan) has run
    hist         \* history: the last call issued (port, command, protocol, attempt),
                 \* whether it returned no error, the calls in flight and the
                 \* backoff sleeps entered

vars == <<inspector, args, probe, doneChan, cpc, gpc, portIdx, cmdIdx, protoIdx, i,
          callCount, errCount, okCount, req, res, err, sleepFor, stdout, tried, closes,
          hist>>

runVars == <<portIdx, cmdIdx, protoIdx, i, callCount, errCount, okCount,
             req, res, err, sleepFor, stdout, tried, closes, hist>>

NilErr == [type |-> "nil", Err |-> "nil"]
NilReq == [Method |-> "", URL |-> "", Header |-> <<>>, Auth |-> <<>>]
NoCall == <<0, 0, 0, 0>>
NoHistory == [lastCall |-> NoCall, lastOk |-> FALSE, inFlight |-> 0, sleeps |-> 0]
NoOutput == [state |-> "", summary |-> <<>>, warning |-> ""]
ZeroProbe ==
    [PrintState |-> FALSE, Ports |-> <<>>, Cmds |-> <<>>, RetryCount |-> 0,
     RetryWait |-> 0, TargetPorts |-> <<>>]

(***************************************************************************)
(* NewCustomProbe, lines 37-99.                                            *)
(***************************************************************************)
\* Line 59: the port-map keys that are skipped.
IsControlPort(insp, nsPortKey) ==
    (nsPortKey = insp.CmdPort) \/ (nsPortKey = insp.EvtPort)

\* Lines 57-65: the host port of the first binding of every other key.
availablePorts(insp) ==
    {insp.Ports[k][1].HostPort :
        k \in {nsPortKey \in DOMAIN insp.Ports : ~IsControlPort(insp, nsPortKey)}}

\* Line 71: fmt.Sprintf("%v", pnum) of a uint16.
PortString(pnum) == ToString(pnum)

\* Mutant of KeepTargetPort: the membership test is left out.
KeepTargetPortAlways(pstr, avail) == TRUE

\* Line 72: the membership test that keeps a target port.
KeepTargetPort(pstr, avail) == pstr \in avail

\* Lines 70-77: the loop over probe.TargetPorts, from index k on.
RECURSIVE TargetPortsLoop(_, _, _, _)
TargetPortsLoop(targetPorts, avail, k, ports) ==
    IF k > Len(targetPorts) THEN ports
    ELSE LET pstr == PortString(targetPorts[k])
         IN TargetPortsLoop(targetPorts, avail, k + 1,
                IF KeepTargetPort(pstr, avail) THEN Append(ports, pstr) ELSE ports)

\* Line 84: what the exposed-port loop appends for portInfo.
AppendExposedPort(ports, portInfo, avail) == Append(ports, portInfo)

\* Lines 82-90: the loop over ExposedPorts from index epi down to 1; yields the
\* ports appended and what is left of availablePorts.
RECURSIVE ExposedPortsLoop(_, _, _, _)
ExposedPortsLoop(exposed, epi, ports, avail) ==
    IF epi < 1 THEN [Ports |-> ports, availablePorts |-> avail]
    ELSE LET portInfo == exposed[epi]
         IN ExposedPortsLoop(exposed, epi - 1,
                AppendExposedPort(ports, portInfo, avail), avail \ {portInfo})

\* Mutant of RemainingPortsOrders: the loop over the remaining ports is missing.
RemainingPortsNone(avail) == {<<>>}

\* Lines 93-95: the remaining available ports, in the map's iteration order.
RemainingPortsOrders(avail) == Perms(avail)

\* Lines 69-96: every value probe.Ports can get.
ResolvedPorts(insp, targetPorts) ==
    IF Len(targetPorts) > 0
    THEN {TargetPortsLoop(targetPorts, availablePorts(insp), 1, <<>>)}
    ELSE LET r == ExposedPortsLoop(insp.ExposedPorts, Len(insp.ExposedPorts), <<>>,
                                   availablePorts(insp))
         IN {r.Ports \o tail : tail \in RemainingPortsOrders(r.availablePorts)}

NewCustomProbe ==
    /\ cpc = "new"
    /\ \E ports \in ResolvedPorts(inspector, args.targetPorts) :
          probe' = [PrintState |-> args.printState, Ports |-> ports, Cmds |-> args.cmds,
                    RetryCount |-> args.retryCount, RetryWait |-> args.retryWait,
                    TargetPorts |-> args.targetPorts]
    /\ doneChan' = "open"
    /\ cpc' = "constructed"
    /\ UNCHANGED <<inspector, args, gpc, runVars>>

(***************************************************************************)
(* Initial states: a call of NewCustomProbe is about to be made.           *)
(***************************************************************************)
InitWith(insps, argSet) ==
    /\ inspector \in insps
    /\ args \in argSet
    /\ probe = ZeroProbe
    /\ doneChan = "nil"
    /\ cpc = "new"
    /\ gpc = "none"
    /\ portIdx = 0 /\ cmdIdx = 0 /\ protoIdx = 0 /\ i = 0
    /\ callCount = 0 /\ errCount = 0 /\ okCount = 0
    /\ req = NilReq /\ res = 0 /\ err = NilErr
    /\ sleepFor = 0
    /\ stdout = NoOutput
    /\ tried = <<>>
    /\ closes = 0
    /\ hist = NoHistory

\* Port resolution: every inspector, every target-port list.
ResolveArgs ==
    [cmds : {<<>>}, retryCount : {0}, retryWait : {0},
     targetPorts : BoundedSeq(TargetPool, MaxTargetPorts), printState : {FALSE}]

ResolveInit == InitWith(Inspectors, ResolveArgs)
ResolveNext == NewCustomProbe
ResolveSpec == ResolveInit /\ [][ResolveNext]_vars

(***************************************************************************)
(* Start, lines 102-245: the goroutine.                                    *)
(***************************************************************************)
\* Mutant of protocols: an empty protocol is expanded to "http" alone.
protocolsHttpOnly(cmd) ==
    IF cmd.Protocol = "" THEN <<"http">> ELSE <<cmd.Protocol>>

\* Lines 128-133.
protocols(cmd) ==
    IF cmd.Protocol = "" THEN <<"http", "https">> ELSE <<cmd.Protocol>>

\* Line 136: fmt.Sprintf("%s://%v:%v%v", proto, DockerHostIP, port, cmd.Resource).
addr(proto, host, port, resource) == proto \o "://" \o host \o ":" \o port \o resource

\* Mutant of maxRetryCount: the configured retry count is ignored.
maxRetryCountIgnoresConfig(p) == probeRetryCount

\* Lines 138-141.
maxRetryCount(p) ==
    IF p.RetryCount > 0 THEN p.RetryCount ELSE probeRetryCount

\* Mutant of otherErrorWait: the halving rounds up.
otherErrorWaitRoundsUp(p) ==
    IF p.RetryWait > 0 THEN (p.RetryWait + 1) \div 2 ELSE defaultOtherErrorWait

\* Lines 143-150, in seconds.
notReadyErrorWait(p) ==
    IF p.RetryWait > 0 THEN p.RetryWait * 2 ELSE defaultNotReadyErrorWait
webErrorWait(p) ==
    IF p.RetryWait > 0 THEN p.RetryWait ELSE defaultWebErrorWait
otherErrorWait(p) ==
    IF p.RetryWait > 0 THEN p.RetryWait \div 2 ELSE defaultOtherErrorWait

\* Line 153: http.NewRequest refuses a method that is not an HTTP token.
InvalidMethods == {"BAD METHOD"}
NewRequestFails(method, url) == method \in InvalidMethods

\* Line 155: strings.SplitN(hline, ":", 2).
ColonAt(hline) ==
    IF \E k \in 1..Len(hline) : hline[k] = ":"
    THEN CHOOSE k \in 1..Len(hline) :
            hline[k] = ":" /\ \A j \in 1..(k - 1) : hline[j] # ":"
    ELSE 0
SplitN2(hline) ==
    IF ColonAt(hline) = 0 THEN <<hline>>
    ELSE <<SubSeq(hline, 1, ColonAt(hline) - 1),
           SubSeq(hline, ColonAt(hline) + 1, Len(hline))>>

\* Lines 161-162: strings.TrimSpace.
RECURSIVE TrimSpace(_)
TrimSpace(s) ==
    IF s = <<>> THEN s
    ELSE IF Head(s) = " " THEN TrimSpace(Tail(s))
    ELSE IF s[Len(s)] = " " THEN TrimSpace(SubSeq(s, 1, Len(s) - 1))
    ELSE s

\* Mutant of HeadersLoop: a malformed line ends the loop (break for continue).
RECURSIVE HeadersLoopStopsAtMalformed(_, _, _)
HeadersLoopStopsAtMalformed(hlines, k, header) ==
    IF k > Len(hlines) THEN header
    ELSE LET hparts == SplitN2(hlines[k])
         IN IF Len(hparts) # 2 THEN header
            ELSE HeadersLoopStopsAtMalformed(hlines, k + 1,
                    Append(header, <<TrimSpace(hparts[1]), TrimSpace(hparts[2])>>))

\* Lines 154-164: the header loop, from line k of cmd.Headers on.
RECURSIVE HeadersLoop(_, _, _)
HeadersLoop(hlines, k, header) ==
    IF k > Len(hlines) THEN header
    ELSE LET hparts == SplitN2(hlines[k])
         IN IF Len(hparts) # 2 THEN HeadersLoop(hlines, k + 1, header)
            ELSE HeadersLoop(hlines, k + 1,
                    Append(header, <<TrimSpace(hparts[1]), TrimSpace(hparts[2])>>))

\* Lines 153-168: the request of one attempt.
BuildRequest(cmd, url) ==
    [Method |-> cmd.Method, URL |-> url,
     Header |-> HeadersLoop(cmd.Headers, 1, <<>>),
     Auth |-> IF (cmd.Username # "") \/ (cmd.Password # "")
              THEN <<cmd.Username, cmd.Password>> ELSE <<>>]

\* Line 170: what httpClient.Do can return: a response with some status code
\* and no error, or no response and an error.
UrlEOF == [type |-> "*url.Error", Err |-> "io.EOF"]
UrlRefused == [type |-> "*url.Error", Err |-> "connection refused"]
PlainEOF == [type |-> "other", Err |-> "io.EOF"]
DoOutcomes ==
    {[res |-> sc, err |-> NilErr] : sc \in {200, 500}}
        \cup {[res |-> 0, err |-> e] : e \in {UrlEOF, UrlRefused, PlainEOF}}

\* Mutant of BackoffWait: the sleep grows with the attempt number.
BackoffWaitByAttempt(p, e) ==
    (i + 1) * (IF e.type = "*url.Error"
               THEN IF e.Err = "io.EOF" THEN notReadyErrorWait(p) ELSE webErrorWait(p)
               ELSE otherErrorWait(p))

\* Lines 206-218: the sleep after a failed call, in seconds.
BackoffWait(p, e) ==
    IF e.type = "*url.Error"
    THEN IF e.Err = "io.EOF" THEN notReadyErrorWait(p) ELSE webErrorWait(p)
    ELSE otherErrorWait(p)

\* Mutant of Warning: the switch tests okCount before callCount.
WarningChecksSuccessFirst(calls, oks) ==
    IF oks = 0 THEN "warning=no.successful.calls"
    ELSE IF calls = 0 THEN "warning=no.calls"
    ELSE ""

\* Lines 232-238.
Warning(calls, oks) ==
    IF calls = 0 THEN "warning=no.calls"
    ELSE IF oks = 0 THEN "warning=no.successful.calls"
    ELSE ""

curCmd == probe.Cmds[cmdIdx]
curProto == protocols(curCmd)[protoIdx]
curAddr == addr(curProto, inspector.DockerHostIP, probe.Ports[portIdx], curCmd.Resource)

\* History: count one call, success or failure for the combination being tried.
Count(field) ==
    [tried EXCEPT ![Len(tried)] = [@ EXCEPT ![field] = @ + 1]]

\* Mutant of Start: the goroutine starts at the port loop, the warm-up sleep of
\* line 105 is missing.
StartWithoutWarmUp ==
    /\ cpc = "constructed"
    /\ cpc' = "started"
    /\ gpc' = "ports"
    /\ portIdx' = 1
    /\ UNCHANGED <<inspector, args, probe, doneChan, cmdIdx, protoIdx, i,
                   callCount, errCount, okCount, req, res, err, sleepFor, stdout, tried,
                   closes, hist>>

\* Lines 102-103: Start spawns the goroutine and returns.  A probe is constructed,
\* started once and awaited by its caller.
Start ==
    /\ cpc = "constructed"
    /\ cpc' = "started"
    /\ gpc' = "warmup"
    /\ sleepFor' = warmUpWait
    /\ UNCHANGED <<inspector, args, probe, doneChan, portIdx, cmdIdx, protoIdx, i,
                   callCount, errCount, okCount, req, res, err, stdout, tried, closes,
                   hist>>

\* Lines 105-126: the warm-up sleep ends; the counters are declared.
WarmUpDone ==
    /\ gpc = "warmup"
    /\ sleepFor' = 0
    /\ stdout' = IF probe.PrintState
                 THEN [stdout EXCEPT !.state = "http.probe.starting"] ELSE stdout
    /\ callCount' = 0 /\ errCount' = 0 /\ okCount' = 0
    /\ portIdx' = 1
    /\ gpc' = "ports"
    /\ UNCHANGED <<inspector, args, probe, doneChan, cpc, cmdIdx, protoIdx, i,
                   req, res, err, tried, closes,
                   hist>>

\* Line 126: the next port.
NextPort ==
    /\ gpc = "ports"
    /\ portIdx <= Len(probe.Ports)
    /\ cmdIdx' = 1
    /\ gpc' = "cmds"
    /\ UNCHANGED <<inspector, args, probe, doneChan, cpc, portIdx, protoIdx, i,
                   callCount, errCount, okCount, req, res, err, sleepFor, stdout, tried, closes,
                   hist>>

\* Lines 127-133: the next command of this port.
NextCmd ==
    /\ gpc = "cmds"
    /\ cmdIdx <= Len(probe.Cmds)
    /\ protoIdx' = 1
    /\ tried' = <<>>
    /\ gpc' = "protos"
    /\ UNCHANGED <<inspector, args, probe, doneChan, cpc, portIdx, cmdIdx, i,
                   callCount, errCount, okCount, req, res, err, sleepFor, stdout, closes,
                   hist>>

\* Line 127: no command is left for this port.
CmdsDone ==
    /\ gpc = "cmds"
    /\ cmdIdx > Len(probe.Cmds)
    /\ portIdx' = portIdx + 1
    /\ gpc' = "ports"
    /\ UNCHANGED <<inspector, args, probe, doneChan, cpc, cmdIdx, protoIdx, i,
                   callCount, errCount, okCount, req, res, err, sleepFor, stdout, tried, closes,
                   hist>>

\* Lines 135-152: the next protocol of this command; its retry loop starts.
NextProto ==
    /\ gpc = "protos"
    /\ protoIdx <= Len(protocols(curCmd))
    /\ i' = 0
    /\ tried' = Append(tried, [proto |-> curProto, calls |-> 0, ok |-> 0, err |-> 0])
    /\ gpc' = "retry"
    /\ UNCHANGED <<inspector, args, probe, doneChan, cpc, portIdx, cmdIdx, protoIdx,
                   callCount, errCount, okCount, req, res, err, sleepFor, stdout, closes,
                   hist>>

\* Line 135: no protocol is left for this command.
ProtosDone ==
    /\ gpc = "protos"
    /\ protoIdx > Len(protocols(curCmd))
    /\ cmdIdx' = cmdIdx + 1
    /\ gpc' = "cmds"
    /\ UNCHANGED <<inspector, args, probe, doneChan, cpc, portIdx, protoIdx, i,
                   callCount, errCount, okCount, req, res, err, sleepFor, stdout, tried, closes,
                   hist>>

\* Mutant of SendRequest: the call is started without waiting for its result and
\* the retry loop goes on.
SendRequestWithoutWaiting ==
    /\ gpc = "retry"
    /\ i < maxRetryCount(probe)
    /\ ~NewRequestFails(curCmd.Method, curAddr)
    /\ req' = BuildRequest(curCmd, curAddr)
    /\ i' = i + 1
    /\ hist' = [hist EXCEPT !.lastCall = <<portIdx, cmdIdx, protoIdx, i>>,
                          !.inFlight = @ + 1]
    /\ UNCHANGED <<inspector, args, probe, doneChan, cpc, gpc, portIdx, cmdIdx, protoIdx,
                   callCount, errCount, okCount, res, err, sleepFor, stdout, tried, closes>>

\* Lines 152-170: an attempt; the request is built and handed to httpClient.Do.
SendRequest ==
    /\ gpc = "retry"
    /\ i < maxRetryCount(probe)
    /\ ~NewRequestFails(curCmd.Method, curAddr)
    /\ req' = BuildRequest(curCmd, curAddr)
    /\ gpc' = "inflight"
    /\ hist' = [hist EXCEPT !.lastCall = <<portIdx, cmdIdx, protoIdx, i>>,
                          !.inFlight = @ + 1]
    /\ UNCHANGED <<inspector, args, probe, doneChan, cpc, portIdx, cmdIdx, protoIdx, i,
                   callCount, errCount, okCount, res, err, sleepFor, stdout, tried, closes>>

\* Lines 153-170: http.NewRequest fails, its error is dropped and the nil request
\* is used (req.Header.Add, req.SetBasicAuth or httpClient.Do): the goroutine
\* panics on the nil pointer and the process dies.
RequestPanics ==
    /\ gpc = "retry"
    /\ i < maxRetryCount(probe)
    /\ NewRequestFails(curCmd.Method, curAddr)
    /\ gpc' = "panicked"
    /\ UNCHANGED <<inspector, args, probe, doneChan, cpc, portIdx, cmdIdx, protoIdx, i,
                   callCount, errCount, okCount, req, res, err, sleepFor, stdout, tried, closes,
                   hist>>

\* Line 152: i < maxRetryCount is false, the retry loop ends.
RetriesExhausted ==
    /\ gpc = "retry"
    /\ ~(i < maxRetryCount(probe))
    /\ protoIdx' = protoIdx + 1
    /\ gpc' = "protos"
    /\ UNCHANGED <<inspector, args, probe, doneChan, cpc, portIdx, cmdIdx, i,
                   callCount, errCount, okCount, req, res, err, sleepFor, stdout, tried, closes,
                   hist>>

\* Mutant of DoReturns: callCount++ of line 171 is missing.
DoReturnsWithoutCounting ==
    /\ gpc = "inflight"
    /\ \E o \in DoOutcomes : res' = o.res /\ err' = o.err
    /\ tried' = Count("calls")
    /\ gpc' = "returned"
    /\ hist' = [hist EXCEPT !.inFlight = @ - 1, !.lastOk = (err' = NilErr)]
    /\ UNCHANGED <<inspector, args, probe, doneChan, cpc, portIdx, cmdIdx, protoIdx, i,
                   callCount, errCount, okCount, req, sleepFor, stdout, closes>>

\* Lines 170-198: httpClient.Do returns; the call is counted.
DoReturns ==
    /\ gpc = "inflight"
    /\ \E o \in DoOutcomes : res' = o.res /\ err' = o.err
    /\ callCount' = callCount + 1
    /\ tried' = Count("calls")
    /\ gpc' = "returned"
    /\ hist' = [hist EXCEPT !.inFlight = @ - 1, !.lastOk = (err' = NilErr)]
    /\ UNCHANGED <<inspector, args, probe, doneChan, cpc, portIdx, cmdIdx, protoIdx, i,
                   errCount, okCount, req, sleepFor, stdout, closes>>

\* Mutant of Succeed: the break is missing, the retry loop goes on.
SucceedWithoutBreak ==
    /\ gpc = "returned"
    /\ err = NilErr
    /\ okCount' = okCount + 1
    /\ tried' = Count("ok")
    /\ i' = i + 1
    /\ req' = NilReq /\ res' = 0
    /\ gpc' = "retry"
    /\ UNCHANGED <<inspector, args, probe, doneChan, cpc, portIdx, cmdIdx, protoIdx,
                   callCount, errCount, err, sleepFor, stdout, closes,
                   hist>>

\* Lines 200-202: no error; the success is counted and the retry loop is left.
Succeed ==
    /\ gpc = "returned"
    /\ err = NilErr
    /\ okCount' = okCount + 1
    /\ tried' = Count("ok")
    /\ protoIdx' = protoIdx + 1
    /\ req' = NilReq /\ res' = 0
    /\ gpc' = "protos"
    /\ UNCHANGED <<inspector, args, probe, doneChan, cpc, portIdx, cmdIdx, i,
                   callCount, errCount, err, sleepFor, stdout, closes,
                   hist>>

\* Mutant of Fail: the last attempt of the retry budget does not sleep.
FailSkipsLastSleep ==
    /\ gpc = "returned"
    /\ err # NilErr
    /\ errCount' = errCount + 1
    /\ tried' = Count("err")
    /\ IF i + 1 < maxRetryCount(probe)
       THEN /\ sleepFor' = BackoffWait(probe, err)
            /\ gpc' = "sleeping"
            /\ hist' = [hist EXCEPT !.sleeps = @ + 1]
            /\ UNCHANGED <<i, req, res, err>>
       ELSE /\ i' = i + 1
            /\ req' = NilReq /\ res' = 0 /\ err' = NilErr
            /\ gpc' = "retry"
            /\ UNCHANGED <<sleepFor, hist>>
    /\ UNCHANGED <<inspector, args, probe, doneChan, cpc, portIdx, cmdIdx, protoIdx,
                   callCount, okCount, stdout, closes>>

\* Lines 203-218: an error; the failure is counted and the goroutine sleeps.
Fail ==
    /\ gpc = "returned"
    /\ err # NilErr
    /\ errCount' = errCount + 1
    /\ tried' = Count("err")
    /\ sleepFor' = BackoffWait(probe, err)
    /\ gpc' = "sleeping"
    /\ hist' = [hist EXCEPT !.sleeps = @ + 1]
    /\ UNCHANGED <<inspector, args, probe, doneChan, cpc, portIdx, cmdIdx, protoIdx, i,
                   callCount, okCount, req, res, err, stdout, closes>>

\* Lines 209-221: the sleep ends; i++.
WakeUp ==
    /\ gpc = "sleeping"
    /\ sleepFor' = 0
    /\ i' = i + 1
    /\ req' = NilReq /\ res' = 0 /\ err' = NilErr
    /\ gpc' = "retry"
    /\ UNCHANGED <<inspector, args, probe, doneChan, cpc, portIdx, cmdIdx, protoIdx,
                   callCount, errCount, okCount, stdout, tried, closes,
                   hist>>

\* Mutant of Finish: doneChan is closed at the head of the port loop whether or
\* not a port is left.
FinishBeforeLastPort ==
    /\ gpc = "ports"
    /\ stdout' = IF probe.PrintState
                 THEN [state |-> "http.probe.done",
                       summary |-> <<callCount, errCount, okCount>>,
                       warning |-> Warning(callCount, okCount)]
                 ELSE stdout
    /\ doneChan' = "closed"
    /\ closes' = closes + 1
    /\ gpc' = "done"
    /\ UNCHANGED <<inspector, args, probe, cpc, portIdx, cmdIdx, protoIdx, i,
                   callCount, errCount, okCount, req, res, err, sleepFor, tried,
                   hist>>

\* Mutant of Finish: a run that made no call returns before the summary and
\* before close(p.doneChan).
FinishReturnsEarlyOnNoCalls ==
    /\ gpc = "ports"
    /\ portIdx > Len(probe.Ports)
    /\ stdout' = IF probe.PrintState /\ callCount > 0
                 THEN [state |-> "http.probe.done",
                       summary |-> <<callCount, errCount, okCount>>,
                       warning |-> Warning(callCount, okCount)]
                 ELSE stdout
    /\ doneChan' = IF callCount > 0 THEN "closed" ELSE doneChan
    /\ closes' = IF callCount > 0 THEN closes + 1 ELSE closes
    /\ gpc' = "done"
    /\ UNCHANGED <<inspector, args, probe, cpc, portIdx, cmdIdx, protoIdx, i,
                   callCount, errCount, okCount, req, res, err, sleepFor, tried,
                   hist>>

\* Lines 126, 226-243: no port is left; the summary is printed and doneChan closed.
Finish ==
    /\ gpc = "ports"
    /\ portIdx > Len(probe.Ports)
    /\ stdout' = IF probe.PrintState
                 THEN [state |-> "http.probe.done",
                       summary |-> <<callCount, errCount, okCount>>,
                       warning |-> Warning(callCount, okCount)]
                 ELSE stdout
    /\ doneChan' = "closed"
    /\ closes' = closes + 1
    /\ gpc' = "done"
    /\ UNCHANGED <<inspector, args, probe, cpc, portIdx, cmdIdx, protoIdx, i,
                   callCount, errCount, okCount, req, res, err, sleepFor, tried,
                   hist>>

\* Lines 248-250: the caller's receive from DoneChan() returns once it is closed.
DoneChan ==
    /\ cpc = "started"
    /\ doneChan = "closed"
    /\ cpc' = "released"
    /\ UNCHANGED <<inspector, args, probe, doneChan, gpc, runVars>>

(***************************************************************************)
(* The probe run: a few containers, every command list, retry count and    *)
(* retry wait within the bounds.                                           *)
(***************************************************************************)
RunPortMap ==
    (CmdPortKey :> "7070") @@ (EvtPortKey :> "7071") @@ ("8080/tcp" :> "8080")
        @@ ("9090/tcp" :> "9090")

\* EXPOSE 8080 only: with no target port the probe gets 8080, then 9090.
RunInspectors ==
    {[Ports |-> Bindings(RunPortMap), CmdPort |-> CmdPortKey, EvtPort |-> EvtPortKey,
      ExposedPorts |-> <<"8080">>, DockerHostIP |-> "10.0.0.1"]}

\* Target ports: none (two ports resolved), one mapped (one port), one unmapped (none).
\* Every retry count and retry wait is run with the command lists of at most one
\* command; the longer lists are run with the default retry wait.
RunArgs ==
    {a \in [cmds : BoundedSeq(CmdPool, MaxCmds),
            retryCount : (-1)..MaxRetryCount,
            retryWait : (-1)..MaxRetryWait,
            targetPorts : {<<>>, <<9090>>, <<7070>>},
            printState : BOOLEAN] :
        Len(a.cmds) > 1 => (a.retryWait = 0 /\ a.retryCount >= 0)}

Init == InitWith(RunInspectors, RunArgs)

Next ==
    \/ NewCustomProbe
    \/ Start
    \/ WarmUpDone
    \/ NextPort
    \/ NextCmd
    \/ CmdsDone
    \/ NextProto
    \/ ProtosDone
    \/ SendRequest
    \/ RequestPanics
    \/ RetriesExhausted
    \/ DoReturns
    \/ Succeed
    \/ Fail
    \/ WakeUp
    \/ Finish
    \/ DoneChan

Spec == Init /\ [][Next]_vars

\* The goroutine's steps.  The Go scheduler keeps a runnable goroutine running,
\* every time.Sleep ends and every httpClient.Do returns (the client's Timeout
\* is 30 seconds), so a step that stays possible is eventually taken.
Goroutine ==
    \/ WarmUpDone \/ NextPort \/ NextCmd \/ CmdsDone \/ NextProto \/ ProtosDone
    \/ SendRequest \/ RequestPanics \/ RetriesExhausted \/ DoReturns
    \/ Succeed \/ Fail \/ WakeUp \/ Finish

FairSpec == Init /\ [][Next]_vars /\ WF_vars(Goroutine)

(***************************************************************************)
(* Port resolution (NewCustomProbe), checked under ResolveSpec.            *)
(***************************************************************************)
Constructed == cpc # "new"

\* The available-port set: the host ports of the container ports other than the
\* inspector's command and event ports.
AvailableSet ==
    {inspector.Ports[k][1].HostPort :
        k \in DOMAIN inspector.Ports \ {inspector.CmdPort, inspector.EvtPort}}

ControlHostPorts ==
    {inspector.Ports[k][1].HostPort :
        k \in DOMAIN inspector.Ports \cap {inspector.CmdPort, inspector.EvtPort}}

InAvailableSet(port) == port \in AvailableSet

TargetStrings == [k \in 1..Len(probe.TargetPorts) |-> ToString(probe.TargetPorts[k])]

\* s without the later occurrences of its members.
FirstOccurrences(s) ==
    LET First(k) == \A j \in 1..(k - 1) : s[j] # s[k]
        Kept == {k \in 1..Len(s) : First(k)}
        Rank(k) == Cardinality({j \in Kept : j <= k})
    IN [n \in 1..Cardinality(Kept) |-> s[CHOOSE k \in Kept : Rank(k) = n]]

\* C1: with a non-empty target-port list, Ports is exactly the subsequence of the
\* target list (as strings) whose members are in the available-port set, in
\* target-list order.
C1_TargetPortsFiltered ==
    (Constructed /\ Len(probe.TargetPorts) > 0)
        => probe.Ports = SelectSeq(TargetStrings, InAvailableSet)

\* Targets [9090, 8080] with 8080 and 9090 available resolve to ["9090", "8080"].
C1_Witness ==
    /\ Constructed
    /\ probe.TargetPorts = <<9090, 8080>>
    /\ AvailableSet = {"8080", "9090"}
    /\ probe.Ports = <<"9090", "8080">>

\* C2: with no target-port list, Ports begins with exactly the exposed ports that
\* are in the available-port set, last-declared first, and no exposed port that
\* is absent from the available set is in Ports.
C2_ExposedPrefixIsAvailable ==
    (Constructed /\ Len(probe.TargetPorts) = 0)
        => LET want == FirstOccurrences(
                           SelectSeq(Reverse(inspector.ExposedPorts), InAvailableSet))
           IN /\ Len(probe.Ports) >= Len(want)
              /\ SubSeq(probe.Ports, 1, Len(want)) = want
              /\ \A e \in Range(inspector.ExposedPorts) :
                    e \notin AvailableSet => e \notin Range(probe.Ports)

\* C3: with no target-port list, no port identifier occurs twice in Ports.
C3_NoDuplicatePorts ==
    (Constructed /\ Len(probe.TargetPorts) = 0) => NoDuplicates(probe.Ports)

\* C4: the host ports of the inspector's command port and event port never
\* appear in Ports.
C4_ControlPortsNeverResolved ==
    Constructed => Range(probe.Ports) \cap ControlHostPorts = {}

(***************************************************************************)
(* The probe run (Start), checked under Spec.                              *)
(***************************************************************************)
\* The retry budget of a combination: the configured retry count if it is > 0,
\* and 5 otherwise.
Budget == IF probe.RetryCount > 0 THEN probe.RetryCount ELSE 5

\* The goroutine is outside every retry loop.
OutsideRetryLoop == gpc \in {"protos", "cmds", "ports", "done"}

\* The k-th combination of `tried` has been left by the runner.
Finished(k) == k < Len(tried) \/ OutsideRetryLoop

TriedProtos == [k \in 1..Len(tried) |-> tried[k].proto]

RECURSIVE SumCalls(_)
SumCalls(t) == IF t = <<>> THEN 0 ELSE Head(t).calls + SumCalls(Tail(t))

\* The protocols a command is to be probed with.
WantedProtos(cmd) == IF cmd.Protocol = "" THEN <<"http", "https">> ELSE <<cmd.Protocol>>

C5_OneSuccessEndsCombination ==
    \A k \in 1..Len(tried) :
        /\ tried[k].ok <= 1
        /\ tried[k].ok = 1 => (Finished(k) /\ tried[k].calls = tried[k].err + 1)

C5_SuccessStep ==
    (gpc = "returned" /\ err = NilErr)
        => /\ okCount' = okCount + 1
           /\ callCount' = callCount /\ errCount' = errCount
           /\ gpc' = "protos"
           /\ <<portIdx', cmdIdx', protoIdx'>> = <<portIdx, cmdIdx, protoIdx + 1>>

\* C5: when an attempt returns without an error, whatever its status code, the
\* next step counts one success, makes no further call and moves to the next
\* protocol; a combination has at most one success, that success is its last call,
\* and the runner has then left the combination's retry loop.
C5_StopAtFirstSuccess == [](C5_OneSuccessEndsCombination) /\ [][C5_SuccessStep]_vars

\* A combination that succeeded on its second attempt, and the runner has moved on.
C5_Witness ==
    /\ gpc = "protos"
    /\ tried # <<>>
    /\ tried[Len(tried)].ok = 1 /\ tried[Len(tried)].err = 1 /\ tried[Len(tried)].calls = 2
    /\ okCount >= 2

\* C6: a combination the runner has left without a success had exactly Budget
\* calls, each of them counted as a failure.
C6_ExhaustedRetries ==
    \A k \in 1..Len(tried) :
        (Finished(k) /\ tried[k].ok = 0)
            => (tried[k].calls = Budget /\ tried[k].err = Budget)

\* A combination that failed 5 times under an unset retry count.
C6_Witness ==
    /\ OutsideRetryLoop
    /\ tried # <<>>
    /\ probe.RetryCount <= 0
    /\ tried[Len(tried)].ok = 0 /\ tried[Len(tried)].calls = 5 /\ tried[Len(tried)].err = 5
    /\ errCount = callCount

\* C7: the protocols tried for a command are, in order, "http" then "https" when
\* its protocol is empty and its one protocol otherwise; when every attempt
\* failed, the command had Budget calls per protocol before the next command.
C7_ProtocolExpansion ==
    /\ gpc \in {"protos", "retry", "inflight", "returned", "sleeping"}
          => TriedProtos = SubSeq(WantedProtos(curCmd), 1, Len(tried))
    /\ (gpc = "cmds" /\ cmdIdx > 1)
          => LET cmd == probe.Cmds[cmdIdx - 1]
             IN /\ TriedProtos = WantedProtos(cmd)
                /\ (\A k \in 1..Len(tried) : tried[k].ok = 0)
                      => SumCalls(tried) = Len(WantedProtos(cmd)) * Budget

\* Retry count 2, a command with an empty protocol, every attempt failed: 4 calls.
C7_Witness ==
    /\ gpc = "cmds" /\ cmdIdx > 1
    /\ probe.Cmds[cmdIdx - 1].Protocol = ""
    /\ probe.RetryCount = 2
    /\ tried = <<[proto |-> "http", calls |-> 2, ok |-> 0, err |-> 2],
                 [proto |-> "https", calls |-> 2, ok |-> 0, err |-> 2]>>
    /\ callCount = 4

\* C8: once Start has been called the run eventually closes doneChan.
C8_RunCompletes == (cpc = "started") ~> (doneChan = "closed")

C9_DoneOnlyAtEnd ==
    /\ closes <= 1
    /\ (doneChan = "closed") <=> (closes = 1)
    /\ (Constructed /\ gpc # "done") => doneChan = "open"
    /\ doneChan = "closed" => (portIdx > Len(probe.Ports) /\ sleepFor = 0)
    /\ cpc = "released" => doneChan = "closed"

C9_DoneStaysSet == (doneChan = "closed") => (doneChan' = "closed" /\ closes' = closes)

\* C9: doneChan is open from construction until the run has gone through every
\* port, is closed once, never while a call or a sleep is pending, and stays closed.
C9_DoneChanOneShot == [](C9_DoneOnlyAtEnd) /\ [][C9_DoneStaysSet]_vars

\* The caller has received from the closed channel after a run that made calls.
C9_Witness ==
    /\ cpc = "released"
    /\ doneChan = "closed"
    /\ callCount > 0
    /\ Len(probe.Ports) = 2

ErrorBucket(e) ==
    IF e.type = "*url.Error"
    THEN IF e.Err = "io.EOF" THEN "not-ready" ELSE "web-error"
    ELSE "other"

\* C10: the sleep after a failed attempt is, for wait unit w = RetryWait, 16 / 8 / 4
\* seconds for not-ready / web-error / other when w <= 0 and 2w / w / w div 2
\* seconds when w > 0, whatever the attempt number.
C10_BackoffByBucket ==
    gpc = "sleeping"
        => LET w == probe.RetryWait
               b == ErrorBucket(err)
           IN sleepFor = IF w <= 0
                         THEN (CASE b = "not-ready" -> 16
                                 [] b = "web-error" -> 8
                                 [] b = "other" -> 4)
                         ELSE (CASE b = "not-ready" -> 2 * w
                                 [] b = "web-error" -> w
                                 [] b = "other" -> w \div 2)

\* A non-URL error on the third attempt with wait unit 2: one second.
C10_Witness ==
    /\ gpc = "sleeping"
    /\ i = 2
    /\ probe.RetryWait = 2
    /\ err = PlainEOF
    /\ sleepFor = 1

\* C11: with no resolved port or no command the run makes no HTTP call, the three
\* counters stay 0, and the finished run has closed doneChan and, with PrintState
\* on, printed the done state with the no-calls warning.
C11_NothingToProbe ==
    (Constructed /\ (probe.Ports = <<>> \/ probe.Cmds = <<>>))
        => /\ callCount = 0 /\ errCount = 0 /\ okCount = 0
           /\ hist.lastCall = NoCall /\ hist.inFlight = 0
           /\ gpc \notin {"retry", "inflight", "returned", "sleeping", "panicked"}
           /\ gpc = "done"
                 => /\ doneChan = "closed"
                    /\ probe.PrintState
                          => /\ stdout.state = "http.probe.done"
                             /\ stdout.summary = <<0, 0, 0>>
                             /\ stdout.warning = "warning=no.calls"

\* A finished, verbose run with commands but no resolved port.
C11_Witness ==
    /\ gpc = "done"
    /\ probe.Ports = <<>> /\ probe.Cmds # <<>>
    /\ probe.PrintState
    /\ doneChan = "closed"
    /\ stdout.warning = "warning=no.calls"

\* a comes before b in (port, command, protocol, attempt) order.
LexLess(a, b) ==
    \E k \in 1..4 : a[k] < b[k] /\ \A j \in 1..(k - 1) : a[j] = b[j]

SameCombination(a, b) == <<a[1], a[2], a[3]>> = <<b[1], b[2], b[3]>>

C12_OneCallInFlight ==
    /\ hist.inFlight \in {0, 1}
    /\ (hist.inFlight = 1) <=> (gpc = "inflight")
    /\ gpc \in {"inflight", "returned", "sleeping"}
          => hist.lastCall = <<portIdx, cmdIdx, protoIdx, i>>

C12_CallStep ==
    (hist'.lastCall # hist.lastCall)
        => LET old == hist.lastCall
               new == hist'.lastCall
           IN /\ gpc = "retry" /\ gpc' = "inflight" /\ hist.inFlight = 0
              /\ LexLess(old, new)
              /\ new[1] \in 1..Len(probe.Ports)
              /\ new[2] \in 1..Len(probe.Cmds)
              /\ new[3] \in 1..Len(WantedProtos(probe.Cmds[new[2]]))
              /\ IF SameCombination(old, new)
                 THEN new[4] = old[4] + 1 /\ ~hist.lastOk
                 ELSE new[4] = 0 /\ (old = NoCall \/ hist.lastOk \/ old[4] = Budget - 1)

\* C12: calls are issued in strictly increasing (port, command, protocol, attempt)
\* order; a call of another combination is issued only after the previous
\* combination succeeded or used up its retries; a combination is retried only
\* after a failure; at most one call is in flight.
C12_SequentialOrder == [](C12_OneCallInFlight) /\ [][C12_CallStep]_vars

\* The second attempt of the last combination (second port, second command,
\* https) is in flight.
C12_Witness ==
    /\ gpc = "inflight"
    /\ hist.lastCall = <<2, 2, 2, 1>>
    /\ hist.inFlight = 1

HasColon(hline) == \E k \in 1..Len(hline) : hline[k] = ":"

HasMalformedHeader(cmd) == \E k \in 1..Len(cmd.Headers) : ~HasColon(cmd.Headers[k])

\* C13: for a command with a header line without a colon, every attempt still
\* sends a request that carries the well-formed lines (name and value trimmed)
\* and not the malformed one, the attempt is counted in callCount and the
\* goroutine can always take its next step; the goroutine panics only on a
\* request that could not be constructed.
C13_MalformedHeaderSkipped ==
    /\ (gpc \in {"inflight", "returned", "sleeping"} /\ HasMalformedHeader(curCmd))
          => /\ Len(req.Header) =
                    Cardinality({k \in 1..Len(curCmd.Headers) : HasColon(curCmd.Headers[k])})
             /\ curCmd.Headers = <<<<"X", "-", "T">>,
                                   <<"A", " ", ":", " ", "b", ":", "c", " ">>>>
                   => req.Header = << <<<<"A">>, <<"b", ":", "c">>>> >>
             /\ req.Method = curCmd.Method
             /\ hist.lastCall = <<portIdx, cmdIdx, protoIdx, i>>
             /\ gpc # "inflight" => (callCount >= 1 /\ tried[Len(tried)].calls = i + 1)
             /\ ENABLED Goroutine
    /\ (gpc = "retry" /\ HasMalformedHeader(curCmd)) => ENABLED Goroutine
    /\ gpc = "panicked" => curCmd.Method = "BAD METHOD"

\* A finished run of the one command whose first header line has no colon: its
\* calls were made and counted.
C13_Witness ==
    /\ gpc = "done"
    /\ probe.Cmds = <<CmdBoth>>
    /\ Len(probe.Ports) = 1
    /\ callCount >= 2
    /\ doneChan = "closed"

\* C14: with PrintState on, the finished run has printed the done state with the
\* no-calls tag iff callCount is 0, the no-successful-calls tag iff callCount > 0
\* and okCount is 0, no tag iff okCount > 0, and the summary of the final counters;
\* nothing of it is printed before the run is finished.
C14_SummaryAndWarning ==
    /\ (gpc = "done" /\ probe.PrintState)
          => /\ stdout.state = "http.probe.done"
             /\ stdout.summary = <<callCount, errCount, okCount>>
             /\ (stdout.warning = "warning=no.calls") <=> (callCount = 0)
             /\ (stdout.warning = "warning=no.successful.calls")
                    <=> (callCount > 0 /\ okCount = 0)
             /\ (stdout.warning = "") <=> (okCount > 0)
    /\ gpc # "done" => (stdout.summary = <<>> /\ stdout.warning = "")
    /\ ~probe.PrintState => stdout = NoOutput

\* A verbose run whose calls all failed.
C14_Witness ==
    /\ gpc = "done"
    /\ probe.PrintState
    /\ callCount > 0 /\ okCount = 0
    /\ stdout.warning = "warning=no.successful.calls"
    /\ stdout.summary = <<callCount, callCount, 0>>

\* C15: with no target-port list, every available port is in Ports, and every
\* available port that is not an exposed port is in Ports exactly once, after
\* every exposed-port entry; the entries that are not exposed ports are exactly
\* the available ports that are not exposed.
C15_RemainingPortsFollow ==
    (Constructed /\ Len(probe.TargetPorts) = 0)
        => LET exposed == Range(inspector.ExposedPorts)
               rest == AvailableSet \ exposed
               At(a) == {k \in 1..Len(probe.Ports) : probe.Ports[k] = a}
           IN /\ AvailableSet \subseteq Range(probe.Ports)
              /\ \A a \in rest : Cardinality(At(a)) = 1
              /\ \A a \in rest : \A k \in At(a) : \A j \in 1..Len(probe.Ports) :
                    probe.Ports[j] \in exposed => j < k
              /\ Range(probe.Ports) \ exposed = rest

\* EXPOSE 8080 with 8080 and 9090 available: 8080, then the remaining 9090.
C15_Witness ==
    /\ Constructed
    /\ probe.TargetPorts = <<>>
    /\ inspector.ExposedPorts = <<"8080">>
    /\ AvailableSet = {"8080", "9090"}
    /\ probe.Ports = <<"8080", "9090">>

C16_NoCallBeforeWarmUp ==
    /\ (cpc \in {"started", "released"}) <=> (gpc # "none")
    /\ gpc \in {"none", "warmup"}
          => (callCount = 0 /\ hist.lastCall = NoCall /\ hist.inFlight = 0 /\ req = NilReq)
    /\ gpc = "warmup" => sleepFor = 9
    /\ sleepFor > 0 => gpc \in {"warmup", "sleeping"}

C16_StartStep ==
    /\ (cpc = "constructed" /\ cpc' # cpc)
          => /\ cpc' = "started"
             /\ gpc' = "warmup" /\ sleepFor' = 9
             /\ doneChan' = "open" /\ callCount' = 0 /\ hist' = NoHistory
    /\ (gpc = "warmup" /\ gpc' # gpc)
          => (gpc' = "ports" /\ sleepFor' = 0 /\ callCount' = 0 /\ hist' = NoHistory)

\* C16: Start returns to its caller with the goroutine in its 9-second warm-up
\* sleep, doneChan open and no call made; no call is issued before that sleep
\* has ended; the goroutine sleeps only in the warm-up and in a backoff.
C16_StartDoesNotBlock == [](C16_NoCallBeforeWarmUp) /\ [][C16_StartStep]_vars

\* Start has returned; the goroutine, with ports and commands to probe, is still
\* in the warm-up sleep.
C16_Witness ==
    /\ cpc = "started"
    /\ gpc = "warmup" /\ sleepFor = 9
    /\ doneChan = "open"
    /\ callCount = 0
    /\ Len(probe.Ports) = 2 /\ Len(probe.Cmds) = 2

C17_CountersAddUp ==
    /\ callCount >= 0 /\ errCount >= 0 /\ okCount >= 0
    /\ gpc = "returned" => callCount = errCount + okCount + 1
    /\ gpc # "returned" => callCount = errCount + okCount

C17_CounterStep ==
    /\ callCount' >= callCount /\ errCount' >= errCount /\ okCount' >= okCount
    /\ (gpc = "inflight" /\ gpc' # gpc)
          => (gpc' = "returned" /\ callCount' = callCount + 1)
    /\ callCount' # callCount
          => /\ gpc = "inflight"
             /\ callCount' = callCount + 1
             /\ errCount' = errCount /\ okCount' = okCount
    /\ (errCount' # errCount \/ okCount' # okCount)
          => /\ gpc = "returned"
             /\ callCount' = callCount
             /\ errCount' + okCount' = errCount + okCount + 1
             /\ (okCount' # okCount) <=> (err = NilErr)

\* C17: the three counters never decrease; callCount = errCount + okCount in
\* every state except between the return of httpClient.Do and the classification
\* of its result, where callCount is one ahead; callCount grows by exactly one
\* on every return of an issued request, and errCount or okCount by one on its
\* classification.
C17_CounterInvariant == [](C17_CountersAddUp) /\ [][C17_CounterStep]_vars

\* A third call has returned and been counted, not yet classified, after one
\* failure and one success.
C17_Witness ==
    /\ gpc = "returned"
    /\ callCount = 3 /\ errCount = 1 /\ okCount = 1

C18_SleepsMatchFailures ==
    /\ gpc # "returned" => hist.sleeps = errCount
    /\ gpc = "sleeping" => (err # NilErr /\ ~hist.lastOk /\ sleepFor = BackoffWait(probe, err))
    /\ gpc = "done" => hist.sleeps = errCount

C18_SleepStep ==
    /\ (gpc = "returned" /\ gpc' # gpc /\ err # NilErr)
          => /\ gpc' = "sleeping"
             /\ hist'.sleeps = hist.sleeps + 1
             /\ sleepFor' = BackoffWait(probe, err)
    /\ (gpc = "returned" /\ gpc' # gpc /\ err = NilErr)
          => (gpc' # "sleeping" /\ hist'.sleeps = hist.sleeps /\ sleepFor' = 0)
    /\ hist'.sleeps # hist.sleeps
          => (gpc = "returned" /\ err # NilErr /\ errCount' = errCount + 1)
    /\ (gpc = "sleeping" /\ gpc' # gpc)
          => (gpc' = "retry" /\ hist' = hist /\ doneChan' = doneChan)
    /\ (hist'.lastCall # hist.lastCall \/ doneChan' # doneChan)
          => (gpc # "sleeping" /\ sleepFor = 0 /\ hist.sleeps = errCount)

\* C18: a failed attempt is followed by exactly one backoff sleep of the wait of
\* its error bucket, which ends before the next request is sent or doneChan is
\* closed, also when the attempt was the last one of the retry budget; a
\* successful attempt is followed by no sleep; the number of sleeps equals
\* errCount outside the classification step and when the run is done.
C18_OneSleepPerFailure == [](C18_SleepsMatchFailures) /\ [][C18_SleepStep]_vars

\* The backoff sleep after the last attempt of an exhausted retry budget.
C18_Witness ==
    /\ gpc = "sleeping"
    /\ i + 1 = maxRetryCount(probe)
    /\ i > 0
    /\ hist.sleeps = errCount
    /\ errCount = i + 1

\* C19: for a wait unit RetryWait >= 1 and for the defaults (RetryWait <= 0) the
\* waits are ordered notReadyErrorWait > webErrorWait > otherErrorWait >= 0;
\* otherErrorWait is 0 exactly when RetryWait = 1, and a backoff sleep of 0
\* seconds is the other-error sleep under RetryWait = 1.
C19_WaitsOrdered ==
    Constructed
        => /\ notReadyErrorWait(probe) > webErrorWait(probe)
           /\ webErrorWait(probe) > otherErrorWait(probe)
           /\ otherErrorWait(probe) >= 0
           /\ (otherErrorWait(probe) = 0) <=> (probe.RetryWait = 1)
           /\ (gpc = "sleeping" /\ sleepFor = 0)
                 => (probe.RetryWait = 1 /\ ErrorBucket(err) = "other")

\* A zero-second sleep after a non-URL error under wait unit 1.
C19_Witness ==
    /\ gpc = "sleeping"
    /\ probe.RetryWait = 1
    /\ err = PlainEOF
    /\ sleepFor = 0
    /\ notReadyErrorWait(probe) = 2 /\ webErrorWait(probe) = 1

====
